---- MODULE Spec2Model ----
(***************************************************************************)
(* A model of the SFX pipeline of sfx_agent: run_sfx_pipeline (runner.py)  *)
(* together with the collaborators it drives: Config (config.py),          *)
(* decompose_brief / call_gemma (decomposer.py), compose_prompt            *)
(* (composer.py), generate_audio (generator.py), process_audio             *)
(* (post_processor.py) and add_to_library (library.py).                    *)
(*                                                                         *)
(* Numbers (durations, influences, loudness) are integers in thousandths:  *)
(* 600 stands for 0.6, -18000 for -18.0.                                   *)
(*                                                                         *)
(* Spec is a run of run_sfx_pipeline; EngineSpec is process_audio called   *)
(* on files on disk, once and again on its own output; LibrarySpec is      *)
(* add_to_library called in a row on one library file.                     *)
(***************************************************************************)
EXTENDS Integers, Sequences, FiniteSets, TLC

\* ------------------------------------------------------------------ bounds

\* Longest batch_influences list the decomposer is made to return.
MaxInfluences == 2

\* Most calls of process_audio in a row, each on the output of the one before.
MaxPasses == 2

\* Most calls of add_to_library in a row on one library file.
MaxAppends == 2

\* ------------------------------------------------- YAML / JSON values

\* A number (int or float), in thousandths.
Num(n) == [t |-> "num", v |-> n]
\* A string holding a number's text, such as "0.3": float() accepts it.
StrNum(n) == [t |-> "str", numeric |-> TRUE, v |-> n]
\* Any other string.
Text(s) == [t |-> "str", numeric |-> FALSE, s |-> s]
\* null / None.
Null == [t |-> "null"]
\* An integer literal too large for a double (e.g. 1 followed by 400 zeros):
\* the JSON and YAML loaders return it as a Python int.
Huge == [t |-> "huge"]
List(items) == [t |-> "list", items |-> items]
Dict(d) == [t |-> "dict", d |-> d]

\* Python's float(x): the converted number, or the exception it raises.
Float(x) ==
    CASE x.t = "num" -> [exc |-> "none", v |-> x.v]
      [] x.t = "str" -> IF x.numeric THEN [exc |-> "none", v |-> x.v]
                                     ELSE [exc |-> "ValueError"]
      [] x.t = "huge" -> [exc |-> "OverflowError"]
      [] OTHER -> [exc |-> "TypeError"]

\* [float(x) for x in items]: the list of converted numbers, or the first
\* exception raised, going through the items in order.
RECURSIVE FloatAll(_)
FloatAll(items) ==
    IF items = <<>> THEN [exc |-> "none", v |-> <<>>]
    ELSE LET h == Float(Head(items)) IN
         IF h.exc # "none" THEN [exc |-> h.exc]
         ELSE LET r == FloatAll(Tail(items)) IN
              IF r.exc # "none" THEN r
              ELSE [exc |-> "none", v |-> <<h.v>> \o r.v]

\* f"{x:.2f}": the number rounded to hundredths. (The model's numbers have no
\* decimal tie: their thousandths digit is never 5.)
Fmt2(v) == IF v >= 0 THEN (v + 5) \div 10 ELSE -(((-v) + 5) \div 10)

\* Python's `k in x`: on a dict, the keys; on a list, the items; a number or
\* None is not iterable.
Contains(x, k) ==
    CASE x.t = "dict" -> IF k \in DOMAIN x.d THEN "yes" ELSE "no"
      [] x.t = "list" -> IF \E j \in 1..Len(x.items) : x.items[j] = Text(k)
                         THEN "yes" ELSE "no"
      [] OTHER -> "TypeError"

SeqToSet(s) == {s[j] : j \in 1..Len(s)}

\* ------------------------------------------------------------ Config

RequiredSections ==
    <<"elevenlabs", "gemma", "output", "prompt", "processing", "library", "logging">>

\* The (section, key) pairs of `required`, in the order _validate visits them.
RequiredEntries ==
    << <<"elevenlabs", "voice">>, <<"elevenlabs", "model">>, <<"gemma", "model">>,
       <<"output", "folder">>, <<"output", "file_format">>,
       <<"prompt", "default_duration">>, <<"prompt", "prompt_influence">>,
       <<"prompt", "batch_influences">>, <<"processing", "target_lufs">>,
       <<"library", "path">>, <<"logging", "level">> >>

\* `key not in sec_data or sec_data.get(key) is None`
EntryMissing(data, e) ==
    LET sec == data.d[e[1]] IN
    \/ e[2] \notin DOMAIN sec.d
    \/ sec.d[e[2]] = Null

\* Step 3 of _validate and the string checks after it, on a mapping that has
\* every section and key.
ValidateTypes(data) ==
    LET p == data.d["prompt"].d
        dd == Float(p["default_duration"])
        pi == Float(p["prompt_influence"])
        tl == Float(data.d["processing"].d["target_lufs"])
        bi == p["batch_influences"]
    IN  IF dd.exc # "none" THEN [exc |-> "ConfigError", why |-> "type", what |-> <<"prompt.default_duration">>]
        ELSE IF pi.exc # "none" THEN [exc |-> "ConfigError", why |-> "type", what |-> <<"prompt.prompt_influence">>]
        ELSE IF tl.exc # "none" THEN [exc |-> "ConfigError", why |-> "type", what |-> <<"processing.target_lufs">>]
        ELSE IF bi.t # "list" THEN [exc |-> "ConfigError", why |-> "type", what |-> <<"prompt.batch_influences">>]
        ELSE IF bi.items # <<>> /\ FloatAll(bi.items).exc # "none"
             THEN [exc |-> "ConfigError", why |-> "type", what |-> <<"prompt.batch_influences">>]
        ELSE IF data.d["library"].d["path"].t # "str"
             THEN [exc |-> "ConfigError", why |-> "type", what |-> <<"library.path">>]
        ELSE IF data.d["logging"].d["level"].t # "str"
             THEN [exc |-> "ConfigError", why |-> "type", what |-> <<"logging.level">>]
        ELSE [exc |-> "none"]

\* Config._validate on the loaded document: the exception it raises, if any.
Validate(data) ==
    IF Contains(data, "elevenlabs") = "TypeError"
    THEN [exc |-> "TypeError"]                       \* `section not in self._cfg`
    ELSE LET missing_sections ==
                 SelectSeq(RequiredSections, LAMBDA s : Contains(data, s) = "no")
         IN
         IF missing_sections # <<>>
         THEN [exc |-> "ConfigError", why |-> "sections", what |-> missing_sections]
         ELSE IF data.t # "dict"
         THEN [exc |-> "TypeError"]                  \* self._cfg[section] on a list
         ELSE LET notdict == SelectSeq(RequiredSections, LAMBDA s : data.d[s].t # "dict")
              IN
              IF notdict # <<>>
              THEN [exc |-> "ConfigError", why |-> "notdict", what |-> <<Head(notdict)>>]
              ELSE LET missing_keys ==
                           SelectSeq(RequiredEntries, LAMBDA e : EntryMissing(data, e))
                   IN
                   IF missing_keys # <<>>
                   THEN [exc |-> "ConfigError", why |-> "keys", what |-> missing_keys]
                   ELSE ValidateTypes(data)

\* A config file on disk: whether it exists, whether YAML can parse it, and
\* the document the parser returns (Null for an empty file).
ConfigFile(exists, parses, doc) == [exists |-> exists, parses |-> parses, doc |-> doc]

\* Config.__init__ run on the file at the resolved path: the exception raised
\* (or "none") and the loaded document.
ConfigInit(file) ==
    IF ~file.exists THEN [exc |-> "FileNotFoundError"]
    ELSE IF ~file.parses THEN [exc |-> "ConfigError", why |-> "parse", what |-> <<>>]
    ELSE IF file.doc = Null THEN [exc |-> "ConfigError", why |-> "empty", what |-> <<>>]
    ELSE LET v == Validate(file.doc) IN
         IF v.exc # "none" THEN v
         ELSE [exc |-> "none", data |-> file.doc]

\* The properties of a loaded Config.
default_duration(cfg) == Float(cfg.data.d["prompt"].d["default_duration"]).v

batch_influences(cfg) ==
    LET r == FloatAll(cfg.data.d["prompt"].d["batch_influences"].items) IN
    IF r.exc \in {"ValueError", "TypeError"} THEN <<>> ELSE r.v

target_lufs(cfg) == Float(cfg.data.d["processing"].d["target_lufs"]).v
output_folder(cfg) == cfg.data.d["output"].d["folder"].s
output_format(cfg) == cfg.data.d["output"].d["file_format"].s
library_path(cfg) == cfg.data.d["library"].d["path"].s
gemma_model(cfg) == cfg.data.d["gemma"].d["model"].s

\* ------------------------------------------------- the files of a run

BaseDoc ==
    Dict([s \in SeqToSet(RequiredSections) |->
        CASE s = "elevenlabs" -> Dict([voice |-> Text("voice1"), model |-> Text("eleven_v2")])
          [] s = "gemma" -> Dict([model |-> Text("gemma3")])
          [] s = "output" -> Dict([folder |-> Text("output_sfx"), file_format |-> Text("wav")])
          [] s = "prompt" -> Dict([default_duration |-> Num(1500),
                                   prompt_influence |-> Num(800),
                                   batch_influences |-> List(<<Num(600), Num(900)>>)])
          [] s = "processing" -> Dict([target_lufs |-> Num(-18000)])
          [] s = "library" -> Dict([path |-> Text("library.yml")])
          [] s = "logging" -> Dict([level |-> Text("INFO")])])

WithEntry(doc, section, key, value) ==
    Dict([doc.d EXCEPT ![section] = Dict([@.d EXCEPT ![key] = value])])

WithoutKey(doc, section, key) ==
    Dict([doc.d EXCEPT ![section] =
            Dict([k \in (DOMAIN @.d) \ {key} |-> @.d[k]])])

WithoutSections(doc, gone) ==
    Dict([s \in (DOMAIN doc.d) \ gone |-> doc.d[s]])

WithSection(doc, section, value) == Dict([doc.d EXCEPT ![section] = value])

\* Documents Config accepts.
ValidDocs ==
    { BaseDoc,
      WithEntry(BaseDoc, "prompt", "batch_influences", List(<<>>)) }

\* Documents Config rejects.
InvalidDocs ==
    { Num(42000),
      List(<<Text("elevenlabs")>>),
      List([j \in 1..Len(RequiredSections) |-> Text(RequiredSections[j])]),
      WithoutSections(BaseDoc, {"gemma", "logging"}),
      WithSection(BaseDoc, "output", Text("output_sfx")),
      WithEntry(WithoutKey(BaseDoc, "library", "path"), "prompt", "default_duration", Null),
      WithEntry(BaseDoc, "processing", "target_lufs", Text("loud")),
      WithEntry(BaseDoc, "prompt", "default_duration", List(<<>>)),
      WithEntry(BaseDoc, "prompt", "batch_influences", Num(600)),
      WithEntry(BaseDoc, "prompt", "batch_influences", List(<<Num(600), Null>>)),
      WithEntry(BaseDoc, "prompt", "batch_influences", List(<<Huge>>)),
      WithEntry(BaseDoc, "library", "path", Num(1000)),
      WithEntry(BaseDoc, "logging", "level", Num(1000)) }

\* What may lie at the config path handed to run_sfx_pipeline.
GivenConfigFiles ==
    { ConfigFile(FALSE, FALSE, Null),            \* no such file
      ConfigFile(TRUE, FALSE, Null),             \* not YAML
      ConfigFile(TRUE, TRUE, Null) }             \* empty file
    \cup { ConfigFile(TRUE, TRUE, doc) : doc \in ValidDocs \cup InvalidDocs }

\* What may lie at configs/sfx_agent.yml, the path Config() falls back to.
DefaultConfigFiles ==
    { ConfigFile(FALSE, FALSE, Null),
      ConfigFile(TRUE, TRUE, WithEntry(BaseDoc, "gemma", "model", Text("gemma3-default"))) }

GivenPath == "given.yml"
DefaultPath == "configs/sfx_agent.yml"

Briefs == {"door slam", "glass break"}

PromptKeys == {"source", "timbre", "dynamics", "pitch", "space", "analogy"}

REQUIRED_DECOMPOSER_KEYS_FOR_PROMPT ==
    <<"source", "timbre", "dynamics", "pitch", "space", "analogy">>

\* ------------------------------------------------------------- state

VARIABLES
    brief,              \* argument of run_sfx_pipeline
    config_files,       \* path -> the config file on disk
    library_file,       \* the library file on disk
    pc,                 \* where run_sfx_pipeline is
    cfg,                \* the run's Config
    structured_params,  \* the decomposer's mapping, as the runner holds it
    duration,           \* resolved duration (bound from "resolve" on)
    influences_to_run,  \* resolved influence list
    i,                  \* 1-based index of the current variation
    text_prompt,        \* the current variation's prompt
    raw_audio_path,     \* the current variation's raw file
    processed_files,    \* returned: output paths
    errors,             \* returned: error messages
    results_for_library,
    raised,             \* the exception that left run_sfx_pipeline, or "none"
    \* Logs of the calls made, in order: each entry holds the arguments, the
    \* exception raised ("none" if none) and the value returned; the entries of
    \* a variation's calls also hold its index idx in influences_to_run.
    config_calls,       \* Config(path)
    decomposer_calls,   \* decompose_brief(brief)
    composer_calls,     \* compose_prompt(params)
    generator_calls,    \* generate_audio(prompt, duration, prompt_influence, config)
    process_calls,      \* process_audio(raw_audio_path, target_lufs, output_dir, overwrite_original)
    library_calls,      \* add_to_library(brief, results, path)
    \* The collaborators called on their own.
    audio_files,        \* path -> the audio file on disk (no entry: no file)
    dirs,               \* the directories on disk
    engine_calls,       \* process_audio calls, in order, with the disk before and after
    store_calls,        \* add_to_library calls, in order, with the file before and after
    writers             \* the add_to_library calls running at the same time

locals == <<duration, influences_to_run, i, text_prompt, raw_audio_path>>
outputs == <<processed_files, errors, results_for_library, raised>>
logs == <<config_calls, decomposer_calls, composer_calls, generator_calls,
          process_calls, library_calls>>
inputs == <<brief, config_files>>
components == <<audio_files, dirs, engine_calls, store_calls, writers>>
vars == <<inputs, library_file, pc, cfg, structured_params,
          locals, outputs, logs, components>>

\* None, where a path or a prompt is not bound yet.
NoPath == Null
NoPrompt == Null
NoParams == [t |-> "unbound"]
NoConfig == [loaded |-> FALSE]

\* A library file holding one earlier record of plain values.
OldRecord == [path |-> Text("a.wav")]
LibraryFiles ==
    { [exists |-> FALSE],
      [exists |-> TRUE, corrupt |-> TRUE],
      [exists |-> TRUE, corrupt |-> FALSE,
       data |-> [b \in {"door slam"} |-> <<OldRecord>>]] }

\* No audio file on disk.
NoFiles == [p \in {} |-> [state |-> "missing"]]

\* No call of add_to_library is running.
NoWriters == [w \in {} |-> [pc |-> "done"]]

\* The collaborators are not called on their own during a pipeline run.
ComponentsIdle ==
    /\ audio_files = NoFiles
    /\ dirs = {}
    /\ engine_calls = <<>>
    /\ store_calls = <<>>
    /\ writers = NoWriters

Init ==
    /\ ComponentsIdle
    /\ brief \in Briefs
    /\ \E g \in GivenConfigFiles, d \in DefaultConfigFiles :
          config_files = [p \in {GivenPath, DefaultPath} |->
                             IF p = GivenPath THEN g ELSE d]
    /\ library_file \in LibraryFiles
    /\ pc = "load_config"
    /\ cfg = NoConfig
    /\ structured_params = NoParams
    /\ duration = 0
    /\ influences_to_run = <<>>
    /\ i = 0
    /\ text_prompt = NoPrompt
    /\ raw_audio_path = NoPath
    /\ processed_files = <<>>
    /\ errors = <<>>
    /\ results_for_library = <<>>
    /\ raised = "none"
    /\ config_calls = <<>>
    /\ decomposer_calls = <<>>
    /\ composer_calls = <<>>
    /\ generator_calls = <<>>
    /\ process_calls = <<>>
    /\ library_calls = <<>>

\* ------------------------------------------------ step 1: configuration

\* `except (FileNotFoundError, ConfigError)` around Config(config_path).
CaughtAsConfigError(exc) == exc \in {"FileNotFoundError", "ConfigError"}

\* The log entry of Config(path): the exception raised ("none" if none) and,
\* for a ConfigError, what its message says: the kind of defect (why) and the
\* sections or entries it names (what).
ConfigCall(path, r) ==
    [path |-> path, exc |-> r.exc,
     why |-> IF "why" \in DOMAIN r THEN r.why ELSE "none",
     what |-> IF "what" \in DOMAIN r THEN r.what ELSE <<>>]

LoadConfig ==
    /\ pc = "load_config"
    /\ LET r == ConfigInit(config_files[GivenPath]) IN
       /\ config_calls' = Append(config_calls, ConfigCall(GivenPath, r))
       /\ IF r.exc = "none"
          THEN /\ cfg' = [loaded |-> TRUE, data |-> r.data]
               /\ pc' = "decompose"
               /\ UNCHANGED <<errors, raised>>
          ELSE IF CaughtAsConfigError(r.exc)
          THEN /\ errors' = Append(errors, [kind |-> "config", exc |-> r.exc])
               /\ pc' = "done"
               /\ UNCHANGED <<cfg, raised>>
          ELSE /\ raised' = r.exc                 \* no handler: leaves the function
               /\ pc' = "done"
               /\ UNCHANGED <<cfg, errors>>
    /\ UNCHANGED <<components, inputs, library_file, structured_params, locals,
                   processed_files, results_for_library,
                   decomposer_calls, composer_calls, generator_calls,
                   process_calls, library_calls>>

\* --------------------------------------------------- step 2: decomposer

Absent == [t |-> "absent"]

\* A decomposer mapping: the prompt fields `keys`, and the optional duration
\* and batch_influences entries.
Params(keys, dur, batch) ==
    Dict([k \in keys \cup (IF dur = Absent THEN {} ELSE {"duration"})
                     \cup (IF batch = Absent THEN {} ELSE {"batch_influences"}) |->
            IF k = "duration" THEN dur
            ELSE IF k = "batch_influences" THEN batch
            ELSE Text(k)])

RECURSIVE SeqsUpTo(_, _)
SeqsUpTo(S, n) ==
    IF n = 0 THEN {<<>>}
    ELSE LET shorter == SeqsUpTo(S, n - 1) IN
         shorter \cup {Append(q, e) : q \in shorter, e \in S}

InfluenceItems == {Num(604), StrNum(300), Text("high"), Null, Huge}

DurationChoices == {Absent, Num(2000), Num(-500), Text("long"), Null}

BatchChoices ==
    {Absent, Null, Num(700)} \cup {List(q) : q \in SeqsUpTo(InfluenceItems, MaxInfluences)}

\* The JSON values Gemma is made to print.
DecomposerValues ==
    {Params(PromptKeys, dur, batch) : dur \in DurationChoices, batch \in BatchChoices}
    \cup {Params(PromptKeys \ gone, Absent, Absent) : gone \in {{"pitch"}, {"source", "analogy"}}}
    \cup {Null, Num(42000), List(<<Text("source")>>),
          List([j \in 1..6 |-> Text(REQUIRED_DECOMPOSER_KEYS_FOR_PROMPT[j])])}

\* What the `ollama` subprocess does.
GemmaOutcomes ==
    {[kind |-> "CalledProcessError"], [kind |-> "bad_json"], [kind |-> "no_binary"]}
    \cup {[kind |-> "json", value |-> v] : v \in DecomposerValues}

\* call_gemma: builds its own Config() from the default path, runs the
\* subprocess and parses its output.
call_gemma(default_file, out) ==
    LET c == ConfigInit(default_file) IN
    IF c.exc # "none" THEN [exc |-> c.exc]
    ELSE CASE out.kind = "CalledProcessError" -> [exc |-> "DecomposerError"]
           [] out.kind = "bad_json" -> [exc |-> "DecomposerError"]
           [] out.kind = "no_binary" -> [exc |-> "FileNotFoundError"]
           [] out.kind = "json" -> [exc |-> "none", value |-> out.value,
                                    model |-> gemma_model(c)]

decompose_brief(b, default_file, out) == call_gemma(default_file, out)

\* [k for k in REQUIRED_DECOMPOSER_KEYS_FOR_PROMPT if k not in structured_params]
MissingKeys_Unchecked(sp) == <<>>

MissingKeys(sp) ==
    SelectSeq(REQUIRED_DECOMPOSER_KEYS_FOR_PROMPT, LAMBDA k : Contains(sp, k) = "no")

\* The outer `except Exception` of run_sfx_pipeline: one message, then return.
Unhandled(exc) ==
    /\ errors' = Append(errors, [kind |-> "unhandled", exc |-> exc])
    /\ pc' = "done"

DecomposeBrief ==
    /\ pc = "decompose"
    /\ config_calls' = Append(config_calls,
            ConfigCall(DefaultPath, ConfigInit(config_files[DefaultPath])))
    /\ \E out \in GemmaOutcomes :
          LET r == decompose_brief(brief, config_files[DefaultPath], out) IN
          /\ decomposer_calls' = Append(decomposer_calls,
                [brief |-> brief, exc |-> r.exc,
                 value |-> IF r.exc = "none" THEN r.value ELSE Null])
          /\ IF r.exc = "DecomposerError"
             THEN /\ errors' = Append(errors, [kind |-> "decompose", missing |-> <<>>])
                  /\ pc' = "done"
                  /\ UNCHANGED structured_params
             ELSE IF r.exc # "none"
             THEN /\ Unhandled(r.exc)
                  /\ UNCHANGED structured_params
             ELSE /\ structured_params' = r.value
                  /\ IF Contains(r.value, "source") = "TypeError"
                     THEN Unhandled("TypeError")
                     ELSE IF MissingKeys(r.value) # <<>>
                     THEN /\ errors' = Append(errors, [kind |-> "decompose",
                                                       missing |-> MissingKeys(r.value)])
                          /\ pc' = "done"
                     ELSE /\ pc' = "resolve"
                          /\ UNCHANGED errors
    /\ UNCHANGED <<components, inputs, library_file, cfg, locals, processed_files,
                   results_for_library, raised, composer_calls, generator_calls,
                   process_calls, library_calls>>

\* ------------------------------------------ step 3: generation parameters

\* float(structured_params.get('duration', cfg.default_duration))
ResolveDuration_DefaultOnFailure(sp, c) ==
    IF sp.t # "dict" THEN [exc |-> "AttributeError"]
    ELSE IF "duration" \in DOMAIN sp.d /\ Float(sp.d["duration"]).exc = "none"
    THEN Float(sp.d["duration"])
    ELSE Float(Num(default_duration(c)))

ResolveDuration(sp, c) ==
    IF sp.t # "dict" THEN [exc |-> "AttributeError"]
    ELSE Float(IF "duration" \in DOMAIN sp.d THEN sp.d["duration"]
               ELSE Num(default_duration(c)))

\* `except (ValueError, TypeError)` around the float conversion of the list.
FallsBack(exc) == exc \in {"ValueError", "TypeError"}

\* The influence list of the run: the decomposer's list when it is a
\* non-empty list, else the config's; converted to floats, with the config's
\* list again when the conversion raises ValueError or TypeError.
ResolveInfluences(sp, c) ==
    LET given == IF "batch_influences" \in DOMAIN sp.d
                 THEN sp.d["batch_influences"]
                 ELSE List([j \in 1..Len(batch_influences(c)) |-> Num(batch_influences(c)[j])])
        chosen == IF given.t # "list" \/ given.items = <<>>
                  THEN [j \in 1..Len(batch_influences(c)) |-> Num(batch_influences(c)[j])]
                  ELSE given.items
        r == FloatAll(chosen)
    IN  IF r.exc = "none" THEN r
        ELSE IF FallsBack(r.exc) THEN [exc |-> "none", v |-> batch_influences(c)]
        ELSE [exc |-> r.exc]

DetermineParams ==
    /\ pc = "resolve"
    /\ LET d == ResolveDuration(structured_params, cfg) IN
       IF d.exc # "none"
       THEN /\ Unhandled(d.exc)
            /\ UNCHANGED <<duration, influences_to_run, i>>
       ELSE /\ duration' = d.v
            /\ LET inf == ResolveInfluences(structured_params, cfg) IN
               IF inf.exc # "none"
               THEN /\ Unhandled(inf.exc)
                    /\ UNCHANGED <<influences_to_run, i>>
               ELSE /\ influences_to_run' = inf.v
                    /\ i' = 1
                    /\ pc' = IF inf.v = <<>> THEN "library" ELSE "compose"
                    /\ UNCHANGED errors
    /\ UNCHANGED <<components, inputs, library_file, cfg, structured_params,
                   text_prompt, raw_audio_path, processed_files,
                   results_for_library, raised, logs>>

\* ------------------------------------------------ step 4: the variations

\* iter_params = structured_params.copy() with prompt_influence and duration set.
IterParams_NoDuration(sp, influence, dur) ==
    Dict([k \in (DOMAIN sp.d) \cup {"prompt_influence"} |->
            IF k = "prompt_influence" THEN Num(influence) ELSE sp.d[k]])

IterParams(sp, influence, dur) ==
    Dict([k \in (DOMAIN sp.d) \cup {"prompt_influence", "duration"} |->
            IF k = "prompt_influence" THEN Num(influence)
            ELSE IF k = "duration" THEN Num(dur)
            ELSE sp.d[k]])

\* The runner's own mapping after iter_params was built from it: .copy()
\* leaves it as it was.
ParamsAfterCopy_Aliased(sp, iter) == iter

ParamsAfterCopy(sp, iter) == sp

TemplateFields ==
    {"source", "timbre", "dynamics", "duration", "pitch", "space", "analogy"}

\* compose_prompt with the default template: the formatted text, as the
\* values of the template's fields; KeyError when a field is absent.
compose_prompt(params) ==
    IF TemplateFields \subseteq DOMAIN params.d
    THEN [exc |-> "none",
          prompt |-> [t |-> "prompt", fields |-> [f \in TemplateFields |-> params.d[f]]]]
    ELSE [exc |-> "KeyError"]

\* The first 50 characters of the sanitised prompt: they cover the start of
\* the template, "{source}: a {timbre} sound; ...".
Safe(prompt) == [source |-> prompt.fields["source"], timbre |-> prompt.fields["timbre"]]

\* generate_audio's out_path: <output_folder>/<safe>_<duration:.2f>_<influence:.2f>.<format>
GeneratedPath(prompt, dur, influence, c) ==
    [t |-> "path", dir |-> output_folder(c), safe |-> Safe(prompt),
     dur |-> Fmt2(dur), infl |-> Fmt2(influence), norm |-> 0,
     ext |-> output_format(c)]

\* The except clauses of the variation's try: the message appended.
VariationError_NoInfluence(exc, influence, raw) ==
    [kind |-> "generation_loop", influence |-> Fmt2(0), exc |-> exc]

VariationError(exc, influence, raw) ==
    IF exc = "KeyError"
    THEN [kind |-> "composition", influence |-> Fmt2(influence), exc |-> exc]
    ELSE IF exc \in {"FileNotFoundError", "PostProcessingError"}
    THEN [kind |-> "post_processing", influence |-> Fmt2(influence), raw |-> raw,
          exc |-> exc]
    ELSE [kind |-> "generation_loop", influence |-> Fmt2(influence), exc |-> exc]

\* The for loop after variation idx of n ended normally: the next index.
AfterSuccess_SameAgain(idx, n) == idx

AfterSuccess(idx, n) == idx + 1

\* The for loop after variation idx of n ended in an except clause: the
\* clauses fall through, so the loop goes on with the next index.
AfterFailure_Abort(idx, n) == n + 1

AfterFailure(idx, n) == idx + 1

\* Loop header: the body runs for index idx of n, or the loop is over.
LoopTarget(idx, n) == IF idx > n THEN "library" ELSE "compose"

\* The variation's try block ended in an except clause.
FailVariation_NoMessage(exc) ==
    /\ UNCHANGED errors
    /\ i' = AfterFailure(i, Len(influences_to_run))
    /\ pc' = LoopTarget(i', Len(influences_to_run))

FailVariation(exc) ==
    /\ errors' = Append(errors, VariationError(exc, influences_to_run[i], raw_audio_path'))
    /\ i' = AfterFailure(i, Len(influences_to_run))
    /\ pc' = LoopTarget(i', Len(influences_to_run))

\* What may go wrong inside a collaborator that composes ("none": nothing).
ComposerFaults == {"none", "Exception"}

ComposePrompt ==
    /\ pc = "compose"
    /\ raw_audio_path' = NoPath
    /\ LET iter_params == IterParams(structured_params, influences_to_run[i], duration) IN
       /\ structured_params' = ParamsAfterCopy(structured_params, iter_params)
       /\ \E fault \in ComposerFaults :
             LET r == compose_prompt(iter_params)
                 exc == IF r.exc # "none" THEN r.exc ELSE fault
             IN
             /\ composer_calls' = Append(composer_calls,
                   [idx |-> i, params |-> iter_params, exc |-> exc,
                    value |-> IF exc = "none" THEN r.prompt ELSE Null])
             /\ IF exc = "none"
                THEN /\ text_prompt' = r.prompt
                     /\ pc' = "generate"
                     /\ UNCHANGED <<errors, i>>
                ELSE /\ FailVariation(exc)
                     /\ UNCHANGED text_prompt
    /\ UNCHANGED <<components, inputs, library_file, cfg, duration, influences_to_run,
                   processed_files, results_for_library, raised, config_calls,
                   decomposer_calls, generator_calls, process_calls, library_calls>>

\* What the ElevenLabs call or the write of its bytes may raise.
GeneratorFaults == {"none", "Exception", "FileNotFoundError", "KeyError"}

GenerateAudio ==
    /\ pc = "generate"
    /\ \E fault \in GeneratorFaults :
          LET out_path == GeneratedPath(text_prompt, duration, influences_to_run[i], cfg)
          IN
          /\ generator_calls' = Append(generator_calls,
                [idx |-> i, prompt |-> text_prompt, duration |-> duration,
                 prompt_influence |-> influences_to_run[i], config |-> cfg,
                 exc |-> fault,
                 value |-> IF fault = "none" THEN out_path ELSE Null])
          /\ IF fault = "none"
             THEN /\ raw_audio_path' = out_path
                  /\ pc' = "post_process"
                  /\ UNCHANGED <<errors, i>>
             ELSE /\ UNCHANGED raw_audio_path
                  /\ FailVariation(fault)
    /\ UNCHANGED <<components, inputs, library_file, cfg, structured_params, duration,
                   influences_to_run, text_prompt, processed_files,
                   results_for_library, raised, config_calls, decomposer_calls,
                   composer_calls, process_calls, library_calls>>

\* ---- process_audio (post_processor.py)

\* Floats that are not finite: -float('inf'), float('inf') and nan.
NegInf == [t |-> "-inf"]
PosInf == [t |-> "inf"]
NaN == [t |-> "nan"]

\* Float arithmetic as process_audio uses it: -x, x + y, x - y and x > 0.0.
FNeg(x) ==
    CASE x.t = "num" -> Num(-x.v)
      [] x.t = "-inf" -> PosInf
      [] x.t = "inf" -> NegInf
      [] OTHER -> NaN

FAdd(x, y) ==
    IF x.t = "nan" \/ y.t = "nan" THEN NaN
    ELSE IF x.t = "num" /\ y.t = "num" THEN Num(x.v + y.v)
    ELSE IF x.t = "num" THEN y
    ELSE IF y.t = "num" THEN x
    ELSE IF x.t = y.t THEN x
    ELSE NaN

FSub(x, y) == FAdd(x, FNeg(y))

FPositive(x) == x.t = "inf" \/ (x.t = "num" /\ x.v > 0)

\* An audio file on disk, as process_audio finds it: what decoding makes of
\* it and, for a decodable file with channels, the integrated loudness
\* (meter.integrated_loudness) and the peak (audio.max_dBFS) measured on it.
AudioFile(lufs, peak) == [state |-> "ok", lufs |-> lufs, peak |-> peak]
MissingFile == [state |-> "missing"]
UndecodableFile == [state |-> "undecodable"]
NoChannelsFile == [state |-> "no_channels"]

\* What the raw file turns out to be when process_audio opens it.
RawFileStates == {"ok", "missing", "undecodable", "no_channels"}

\* The loudness and peak measured on a generated clip.
Clip == AudioFile(Num(-23000), Num(-6000))

RawFile(state, clip) == IF state = "ok" THEN clip ELSE [state |-> state]

\* What may be raised while measuring, applying the gain or exporting
\* ("none": nothing): the stage, and the exception.
NoFault == [stage |-> "none", exc |-> "none"]
ProcessingFaults ==
    {NoFault,
     [stage |-> "measure", exc |-> "Exception"],
     [stage |-> "export", exc |-> "Exception"],
     [stage |-> "export", exc |-> "FileNotFoundError"]}

Bool(b) == [t |-> "bool", v |-> b]

\* `if original_lufs == -float('inf'):`
IsSilent_Never(original_lufs) == FALSE

IsSilent(original_lufs) == original_lufs = NegInf

\* gain_to_target_db = target_lufs - original_lufs
GainToTarget(target, original_lufs) == FSub(target, original_lufs)

\* predicted_peak = original_peak_dbfs + gain_to_target_db
PredictedPeak(original_peak_dbfs, gain_to_target_db) ==
    FAdd(original_peak_dbfs, gain_to_target_db)

\* `if predicted_peak > 0.0:`
ClippingPredicted_AtZero(predicted_peak) ==
    FPositive(predicted_peak) \/ predicted_peak = Num(0)

ClippingPredicted(predicted_peak) == FPositive(predicted_peak)

\* gain_applied_db: the gain to the target, or -original_peak_dbfs when
\* clipping is predicted.
GainApplied_Unlimited(gain_to_target_db, original_peak_dbfs, clipping_prevented) ==
    gain_to_target_db

GainApplied(gain_to_target_db, original_peak_dbfs, clipping_prevented) ==
    IF clipping_prevented THEN FNeg(original_peak_dbfs) ELSE gain_to_target_db

\* audio.apply_gain(gain) and the measurement of its result: loudness and
\* peak move by the gain.
apply_gain_NotApplied(file, gain) == file

apply_gain(file, gain) == AudioFile(FAdd(file.lufs, gain), FAdd(file.peak, gain))

\* The silence branch and the normalisation branch of process_audio: the
\* gain, the clipping flag and the audio to export.
Normalize(file, target) ==
    IF IsSilent(file.lufs)
    THEN [gain_applied_db |-> Num(0), clipping_prevented |-> FALSE,
          normalized_audio |-> file]
    ELSE LET gain_to_target_db == GainToTarget(target, file.lufs)
             predicted_peak == PredictedPeak(file.peak, gain_to_target_db)
             clipping_prevented == ClippingPredicted(predicted_peak)
             gain_applied_db == GainApplied(gain_to_target_db, file.peak,
                                            clipping_prevented)
         IN  [gain_applied_db |-> gain_applied_db,
              clipping_prevented |-> clipping_prevented,
              normalized_audio |-> apply_gain(file, gain_applied_db)]

\* process_audio's output path.
OutputPath_SameName(raw, output_dir, overwrite_original) ==
    IF overwrite_original THEN raw
    ELSE IF output_dir # Null
    THEN [raw EXCEPT !.dir = output_dir.s]
    ELSE raw

OutputPath(raw, output_dir, overwrite_original) ==
    IF overwrite_original THEN raw
    ELSE IF output_dir # Null
    THEN [raw EXCEPT !.dir = output_dir.s, !.norm = @ + 1]
    ELSE [raw EXCEPT !.norm = @ + 1]

\* output_dir.mkdir(parents=True, exist_ok=True): the directory made, if any.
MadeDir(output_dir, overwrite_original) ==
    IF ~overwrite_original /\ output_dir # Null THEN {output_dir.s} ELSE {}

\* The except clauses around the body of process_audio: what leaves the call
\* when exc is raised inside it.
Reraised_Unwrapped(exc) == exc

Reraised(exc) ==
    IF exc \in {"FileNotFoundError", "PostProcessingError"} THEN exc
    ELSE "PostProcessingError"

\* process_audio: the exception raised or the results dict returned, the
\* audio it decoded (if it got that far), the directory it made and the
\* file it wrote.
process_audio(raw, target, output_dir, overwrite_original, file, fault) ==
    LET nothing == [decoded |-> FALSE, made |-> {}, written |-> Null] IN
    IF file.state = "missing"
    THEN [exc |-> "FileNotFoundError"] @@ nothing
    ELSE IF file.state = "undecodable"
    THEN [exc |-> Reraised("PostProcessingError")] @@ nothing
    ELSE IF file.state = "no_channels"
    THEN [exc |-> Reraised("PostProcessingError")] @@ [nothing EXCEPT !.decoded = TRUE]
    ELSE IF fault.stage = "measure"
    THEN [exc |-> Reraised(fault.exc)] @@ [nothing EXCEPT !.decoded = TRUE]
    ELSE LET n == Normalize(file, Num(target))
             output_path == OutputPath(raw, output_dir, overwrite_original)
             made == MadeDir(output_dir, overwrite_original)
         IN  IF fault.stage = "export"
             THEN [exc |-> Reraised(fault.exc), decoded |-> TRUE, made |-> made,
                   written |-> Null]
             ELSE [exc |-> "none", decoded |-> TRUE, made |-> made,
                   written |-> [path |-> output_path, file |-> n.normalized_audio],
                   results |->
                     [original_lufs |-> file.lufs,
                      original_peak_dbfs |-> file.peak,
                      target_lufs |-> Num(target),
                      gain_applied_db |-> n.gain_applied_db,
                      clipping_prevented |-> Bool(n.clipping_prevented),
                      normalized_lufs |-> n.normalized_audio.lufs,
                      normalized_peak_dbfs |-> n.normalized_audio.peak,
                      output_path |-> output_path,
                      error |-> Null]]

\* library_entry = processing_results.copy() plus brief, prompt, raw_audio_path.
LibraryEntry_NoRawPath(results, b, prompt, raw) ==
    [k \in (DOMAIN results) \cup {"brief", "prompt"} |->
        IF k = "brief" THEN Text(b)
        ELSE IF k = "prompt" THEN prompt
        ELSE results[k]]

LibraryEntry(results, b, prompt, raw) ==
    [k \in (DOMAIN results) \cup {"brief", "prompt", "raw_audio_path"} |->
        IF k = "brief" THEN Text(b)
        ELSE IF k = "prompt" THEN prompt
        ELSE IF k = "raw_audio_path" THEN raw
        ELSE results[k]]

\* `if processed_file:` The lists a variation with results appends to.
RecordsAfter(records, entry) == Append(records, entry)

FilesAfter_Raw(files, results, raw) == Append(files, raw)

FilesAfter(files, results, raw) == Append(files, results.output_path)

PostProcess ==
    /\ pc = "post_process"
    /\ UNCHANGED raw_audio_path
    /\ \E state \in RawFileStates, fault \in ProcessingFaults :
          LET r == process_audio(raw_audio_path, target_lufs(cfg),
                                 Text(output_folder(cfg)), FALSE,
                                 RawFile(state, Clip), fault)
          IN
          /\ process_calls' = Append(process_calls,
                [idx |-> i, raw_audio_path |-> raw_audio_path,
                 target_lufs |-> target_lufs(cfg),
                 output_dir |-> Text(output_folder(cfg)),
                 overwrite_original |-> FALSE, exc |-> r.exc,
                 value |-> IF r.exc = "none" THEN r.results ELSE Null])
          /\ IF r.exc # "none"
             THEN /\ FailVariation(r.exc)
                  /\ UNCHANGED <<processed_files, results_for_library>>
             ELSE /\ IF r.results.output_path # Null
                     THEN /\ processed_files' =
                                FilesAfter(processed_files, r.results, raw_audio_path)
                          /\ results_for_library' =
                                RecordsAfter(results_for_library,
                                    LibraryEntry(r.results, brief, text_prompt,
                                                 raw_audio_path))
                          /\ UNCHANGED errors
                     ELSE /\ errors' = Append(errors,
                                [kind |-> "no_output_path", raw |-> raw_audio_path])
                          /\ UNCHANGED <<processed_files, results_for_library>>
                  /\ i' = AfterSuccess(i, Len(influences_to_run))
                  /\ pc' = LoopTarget(i', Len(influences_to_run))
    /\ UNCHANGED <<components, inputs, library_file, cfg, structured_params, duration,
                   influences_to_run, text_prompt, raised, config_calls,
                   decomposer_calls, composer_calls, generator_calls, library_calls>>

\* ------------------------------------------------------ step 5: library

EmptyMapping == [b \in {} |-> <<>>]

\* What YAML(typ="safe") can dump: plain scalars, not a pathlib.Path.
Representable(record) == \A k \in DOMAIN record : record[k].t # "path"

\* `if lib_path.exists(): data = yaml.load(f) or {}  else: data = {}`
LoadLibrary_StartsFresh(file) == [exc |-> "none", data |-> EmptyMapping]

LoadLibrary(file) ==
    IF ~file.exists THEN [exc |-> "none", data |-> EmptyMapping]
    ELSE IF file.corrupt THEN [exc |-> "YAMLError"]
    ELSE [exc |-> "none", data |-> file.data]

\* existing.extend(results)
Extended_Replaced(existing, results) == results

Extended(existing, results) == existing \o results

\* existing = data.setdefault(brief, []); existing.extend(results)
Merged(data, b, results) ==
    [k \in (DOMAIN data) \cup {b} |->
        IF k = b
        THEN Extended(IF b \in DOMAIN data THEN data[b] ELSE <<>>, results)
        ELSE data[k]]

\* `with lib_path.open("w") as f: yaml.dump(data, f)`: open("w") has
\* truncated the file when yaml.dump raises.
DumpLibrary(data) ==
    IF \A k \in DOMAIN data : \A j \in 1..Len(data[k]) : Representable(data[k][j])
    THEN [exc |-> "none",
          file |-> [exists |-> TRUE, corrupt |-> FALSE, data |-> data]]
    ELSE [exc |-> "RepresenterError",
          file |-> [exists |-> TRUE, corrupt |-> FALSE, data |-> EmptyMapping]]

\* add_to_library on the library file: the exception raised (or "none"), the
\* step that raised it and the file the call leaves on disk.
add_to_library(file, b, results) ==
    LET loaded == LoadLibrary(file) IN
    IF loaded.exc # "none"
    THEN [exc |-> loaded.exc, step |-> "load", file |-> file]
    ELSE LET dumped == DumpLibrary(Merged(loaded.data, b, results)) IN
         [exc |-> dumped.exc,
          step |-> IF dumped.exc = "none" THEN "returned" ELSE "dump",
          file |-> dumped.file]

\* `if results_for_library:`
StoresLibrary_Always(records) == TRUE

StoresLibrary(records) == records # <<>>

\* The handler of a failed library write: the lists run returns.
FilesAfterLibraryError_Cleared(files) == <<>>

FilesAfterLibraryError(files) == files

StoreLibrary ==
    /\ pc = "library"
    /\ IF StoresLibrary(results_for_library)
       THEN LET r == add_to_library(library_file, brief, results_for_library) IN
            /\ library_calls' = Append(library_calls,
                    [brief |-> brief, results |-> results_for_library,
                     path |-> library_path(cfg), exc |-> r.exc])
            /\ library_file' = r.file
            /\ IF r.exc = "none"
               THEN UNCHANGED <<errors, processed_files>>
               ELSE /\ errors' = Append(errors, [kind |-> "library", exc |-> r.exc])
                    /\ processed_files' = FilesAfterLibraryError(processed_files)
       ELSE UNCHANGED <<library_calls, library_file, errors, processed_files>>
    /\ pc' = "done"
    /\ UNCHANGED <<components, inputs, cfg, structured_params, locals,
                   results_for_library, raised, config_calls, decomposer_calls,
                   composer_calls, generator_calls, process_calls>>

\* ------------------------------------------------------- specification

Next ==
    \/ LoadConfig
    \/ DecomposeBrief
    \/ DetermineParams
    \/ ComposePrompt
    \/ GenerateAudio
    \/ PostProcess
    \/ StoreLibrary

Spec == Init /\ [][Next]_vars

\* ------------------------------------- process_audio called on its own

\* The pipeline is not running while a collaborator is called on its own.
PipelineIdle ==
    /\ brief = "door slam"
    /\ config_files = [p \in {GivenPath, DefaultPath} |-> ConfigFile(TRUE, TRUE, BaseDoc)]
    /\ pc = "idle"
    /\ cfg = NoConfig
    /\ structured_params = NoParams
    /\ duration = 0
    /\ influences_to_run = <<>>
    /\ i = 0
    /\ text_prompt = NoPrompt
    /\ raw_audio_path = NoPath
    /\ processed_files = <<>>
    /\ errors = <<>>
    /\ results_for_library = <<>>
    /\ raised = "none"
    /\ config_calls = <<>>
    /\ decomposer_calls = <<>>
    /\ composer_calls = <<>>
    /\ generator_calls = <<>>
    /\ process_calls = <<>>
    /\ library_calls = <<>>

pipeline == <<inputs, pc, cfg, structured_params, locals, outputs, logs>>

\* The raw file process_audio is called on: "raw_sfx/<name>.wav".
RawDir == "raw_sfx"
EngineRawPath ==
    [t |-> "path", dir |-> RawDir,
     safe |-> [source |-> Text("source"), timbre |-> Text("timbre")],
     dur |-> 150, infl |-> 60, norm |-> 0, ext |-> "wav"]

\* Measured clips: quiet ones, a loud one, one whose peak is at full scale,
\* digital silence, and a clip under the meter's gate (no loudness, but a peak).
MeasuredClips ==
    {AudioFile(Num(-23000), Num(-6000)), AudioFile(Num(-24000), Num(-6000)),
     AudioFile(Num(-12000), Num(-1000)), AudioFile(Num(-30000), Num(0)),
     AudioFile(NegInf, NegInf), AudioFile(NegInf, Num(-90309))}

EngineFiles == {UndecodableFile, NoChannelsFile} \cup MeasuredClips

Targets == {-18000, -23000, -14000}

OutputDirs == {Null, Text(RawDir), Text("output_sfx")}

EngineInit ==
    /\ PipelineIdle
    /\ library_file = [exists |-> FALSE]
    /\ store_calls = <<>>
    /\ writers = NoWriters
    /\ engine_calls = <<>>
    /\ audio_files \in {NoFiles} \cup
                       {[p \in {EngineRawPath} |-> f] : f \in EngineFiles}
    /\ dirs \in {{RawDir}, {RawDir, "output_sfx"}}

\* The file at a path, as `exists()` and the decoder find it.
FileAt(files, path) == IF path \in DOMAIN files THEN files[path] ELSE MissingFile

\* The disk after process_audio returned or raised.
FilesAfterExport(files, r) ==
    IF r.written = Null THEN files
    ELSE [q \in (DOMAIN files) \cup {r.written.path} |->
             IF q = r.written.path THEN r.written.file ELSE files[q]]

\* One call of process_audio on the disk as it is.
CallProcessAudio(raw, target, output_dir, overwrite_original, fault) ==
    LET r == process_audio(raw, target, output_dir, overwrite_original,
                           FileAt(audio_files, raw), fault)
    IN
    /\ audio_files' = FilesAfterExport(audio_files, r)
    /\ dirs' = dirs \cup r.made
    /\ engine_calls' = Append(engine_calls,
          [raw_audio_path |-> raw, target_lufs |-> target,
           output_dir |-> output_dir, overwrite_original |-> overwrite_original,
           fault |-> fault, exc |-> r.exc, decoded |-> r.decoded,
           value |-> IF r.exc = "none" THEN r.results ELSE Null,
           files_before |-> audio_files, files_after |-> audio_files',
           dirs_before |-> dirs, dirs_after |-> dirs'])
    /\ UNCHANGED <<pipeline, library_file, store_calls, writers>>

\* process_audio on the raw file.
ProcessRaw ==
    /\ engine_calls = <<>>
    /\ \E target \in Targets, output_dir \in OutputDirs,
          overwrite_original \in BOOLEAN, fault \in ProcessingFaults :
          CallProcessAudio(EngineRawPath, target, output_dir,
                           overwrite_original, fault)

\* process_audio again, with the same target, on the file the call before
\* wrote.
ProcessAgain ==
    /\ engine_calls # <<>>
    /\ Len(engine_calls) < MaxPasses
    /\ LET last == engine_calls[Len(engine_calls)] IN
       /\ last.exc = "none"
       /\ \E output_dir \in OutputDirs, overwrite_original \in BOOLEAN,
             fault \in ProcessingFaults :
             CallProcessAudio(last.value.output_path, last.target_lufs,
                              output_dir, overwrite_original, fault)

EngineNext ==
    \/ ProcessRaw
    \/ ProcessAgain

EngineSpec == EngineInit /\ [][EngineNext]_vars

\* ------------------------------------ add_to_library called on its own

\* Records of plain values, and one holding a pathlib.Path.
NewRecords ==
    {[path |-> Text("b.wav")], [path |-> Text("c.wav")],
     [path |-> EngineRawPath]}

\* The results lists add_to_library is called with.
StoreResults == SeqsUpTo(NewRecords, 2)

\* The library file before the first call: none, a corrupt one, an empty
\* one, and mappings of one and of two briefs.
StoreFiles ==
    LibraryFiles \cup
    {[exists |-> TRUE, corrupt |-> FALSE, data |-> EmptyMapping],
     [exists |-> TRUE, corrupt |-> FALSE,
      data |-> [b \in Briefs |-> IF b = "door slam"
                                 THEN <<OldRecord, [path |-> Text("b.wav")]>>
                                 ELSE <<[path |-> Text("c.wav")]>>]]}

LibraryInit ==
    /\ PipelineIdle
    /\ audio_files = NoFiles
    /\ dirs = {}
    /\ engine_calls = <<>>
    /\ store_calls = <<>>
    /\ writers = NoWriters
    /\ library_file \in StoreFiles

\* One call of add_to_library on the library file as it is.
AddToLibrary ==
    /\ Len(store_calls) < MaxAppends
    /\ \E b \in Briefs, results \in StoreResults :
          LET r == add_to_library(library_file, b, results) IN
          /\ library_file' = r.file
          /\ store_calls' = Append(store_calls,
                [brief |-> b, results |-> results, exc |-> r.exc,
                 step |-> r.step, before |-> library_file, after |-> r.file])
    /\ UNCHANGED <<pipeline, audio_files, dirs, engine_calls, writers>>

LibraryNext == AddToLibrary

LibrarySpec == LibraryInit /\ [][LibraryNext]_vars

\* ------------------------- add_to_library called by two runs at a time

\* The runs that store their records at the same time.
Writers == {"run1", "run2"}

\* The record each of them appends.
WriterRecord(w) == IF w = "run1" THEN [path |-> Text("b.wav")]
                                 ELSE [path |-> Text("c.wav")]

ConcurrentInit ==
    /\ PipelineIdle
    /\ audio_files = NoFiles
    /\ dirs = {}
    /\ engine_calls = <<>>
    /\ store_calls = <<>>
    /\ library_file \in StoreFiles
    /\ \E briefs \in [Writers -> Briefs] :
          writers = [w \in Writers |->
                        [pc |-> "load", brief |-> briefs[w],
                         results |-> <<WriterRecord(w)>>, data |-> EmptyMapping,
                         exc |-> "none"]]

\* Lines 26-36 of add_to_library: load the file (or start fresh) and extend
\* the brief's list in memory.
LoadStep(w) ==
    /\ writers[w].pc = "load"
    /\ LET loaded == LoadLibrary(library_file) IN
       writers' = [writers EXCEPT ![w] =
           IF loaded.exc # "none"
           THEN [@ EXCEPT !.pc = "raised", !.exc = loaded.exc]
           ELSE [@ EXCEPT !.pc = "open",
                          !.data = Merged(loaded.data, writers[w].brief,
                                           writers[w].results)]]
    /\ UNCHANGED <<pipeline, library_file, audio_files, dirs, engine_calls, store_calls>>

\* `with lib_path.open("w") as f:` creates or truncates the file.
OpenStep(w) ==
    /\ writers[w].pc = "open"
    /\ library_file' = [exists |-> TRUE, corrupt |-> FALSE, data |-> EmptyMapping]
    /\ writers' = [writers EXCEPT ![w].pc = "dump"]
    /\ UNCHANGED <<pipeline, audio_files, dirs, engine_calls, store_calls>>

\* `yaml.dump(data, f)` and the return.
DumpStep(w) ==
    /\ writers[w].pc = "dump"
    /\ LET dumped == DumpLibrary(writers[w].data) IN
       /\ library_file' = dumped.file
       /\ writers' = [writers EXCEPT ![w] =
             IF dumped.exc = "none" THEN [@ EXCEPT !.pc = "returned"]
             ELSE [@ EXCEPT !.pc = "raised", !.exc = dumped.exc]]
    /\ UNCHANGED <<pipeline, audio_files, dirs, engine_calls, store_calls>>

ConcurrentNext ==
    \/ \E w \in Writers : LoadStep(w)
    \/ \E w \in Writers : OpenStep(w)
    \/ \E w \in Writers : DumpStep(w)

ConcurrentSpec == ConcurrentInit /\ [][ConcurrentNext]_vars

\* ------------------------------------------------------ reading the logs

Failures(calls) == SelectSeq(calls, LAMBDA c : c.exc # "none")

Indices == [k \in 1..Len(influences_to_run) |-> k]

\* Variation k ended in a raised exception of one of its three calls.
Failed(k) ==
    \/ \E j \in 1..Len(composer_calls) :
          composer_calls[j].idx = k /\ composer_calls[j].exc # "none"
    \/ \E j \in 1..Len(generator_calls) :
          generator_calls[j].idx = k /\ generator_calls[j].exc # "none"
    \/ \E j \in 1..Len(process_calls) :
          process_calls[j].idx = k /\ process_calls[j].exc # "none"

FailedIdx == SelectSeq(Indices, Failed)

\* The Loudness Engine calls that returned, in call order.
Succeeded == SelectSeq(process_calls, LAMBDA c : c.exc = "none")

PerVariationKinds == {"composition", "post_processing", "generation_loop"}

\* The messages the variation loop appended.
VariationMessages ==
    SelectSeq(errors, LAMBDA m : m.kind \in PerVariationKinds \cup {"no_output_path"})

\* The decomposer returned a mapping holding the six prompt fields.
PassedDecomposition ==
    /\ decomposer_calls # <<>>
    /\ decomposer_calls[1].exc = "none"
    /\ decomposer_calls[1].value.t = "dict"
    /\ PromptKeys \subseteq DOMAIN decomposer_calls[1].value.d

\* The decomposer raised, or what it returned is no mapping with the six fields.
DecompositionFailed ==
    /\ decomposer_calls # <<>>
    /\ \/ decomposer_calls[1].exc # "none"
       \/ decomposer_calls[1].value.t # "dict"
       \/ ~(PromptKeys \subseteq DOMAIN decomposer_calls[1].value.d)

\* ----------------------------------------------------------------- claims

\* C1: whatever fails in a variation (Composer, Generator or Loudness Engine
\* raising), every influence of the resolved list is attempted exactly once
\* and in list order: the j-th Composer call is for the j-th influence, no
\* influence is attempted twice, and once the loop is over every influence
\* has been attempted, the ones after a failed variation included.
C1_EveryInfluenceAttemptedOnceInOrder ==
    /\ \A j \in 1..Len(composer_calls) :
          /\ j <= Len(influences_to_run)
          /\ composer_calls[j].idx = j
          /\ composer_calls[j].params.d["prompt_influence"] = Num(influences_to_run[j])
    /\ pc \in {"library", "done"} => Len(composer_calls) = Len(influences_to_run)
    /\ pc = "compose" => Len(composer_calls) = i - 1
    /\ pc \in {"generate", "post_process"} => Len(composer_calls) = i

\* The first of two variations failed in the Generator and the second went
\* through to the Loudness Engine.
C1_Witness ==
    /\ pc = "done"
    /\ Len(influences_to_run) = 2
    /\ \E j \in 1..Len(generator_calls) :
          generator_calls[j].idx = 1 /\ generator_calls[j].exc = "Exception"
    /\ \E j \in 1..Len(process_calls) :
          process_calls[j].idx = 2 /\ process_calls[j].exc = "none"

\* C2: add_to_library is called at most once per run, only when the run is
\* over and every variation has been attempted, exactly when at least one
\* variation fully succeeded, and with one record per successful variation,
\* in influence order, none for a failed one.
C2_LibraryStoredOnceAfterAllVariations ==
    /\ Len(library_calls) <= 1
    /\ library_calls # <<>> =>
          /\ pc = "done"
          /\ Len(composer_calls) = Len(influences_to_run)
          /\ Len(library_calls[1].results) = Len(Succeeded)
          /\ \A j \in 1..Len(Succeeded) :
                /\ library_calls[1].results[j].output_path = Succeeded[j].value.output_path
                /\ library_calls[1].results[j].raw_audio_path = Succeeded[j].raw_audio_path
                /\ \A k \in 1..Len(Succeeded) : j < k => Succeeded[j].idx < Succeeded[k].idx
    /\ pc = "done" => (library_calls # <<>> <=> Succeeded # <<>>)

\* One of two variations failed and the library was called with the one
\* record of the other.
C2_Witness ==
    /\ pc = "done"
    /\ Len(composer_calls) = 2
    /\ Len(FailedIdx) = 1
    /\ Len(library_calls) = 1
    /\ Len(library_calls[1].results) = 1

\* The configuration at the given path cannot be loaded.
ConfigFails == ConfigInit(config_files[GivenPath]).exc # "none"

\* C3: if the configuration cannot be loaded, the run returns with zero
\* successes and exactly one error message, about the configuration, and no
\* collaborator is called.
C3_ConfigFailureReturnsOneError ==
    (pc = "done" /\ ConfigFails) =>
        /\ raised = "none"
        /\ processed_files = <<>>
        /\ Len(errors) = 1
        /\ errors[1].kind = "config"
        /\ decomposer_calls = <<>>
        /\ composer_calls = <<>>
        /\ generator_calls = <<>>
        /\ process_calls = <<>>
        /\ library_calls = <<>>

\* C4: after a successful configuration load the Decomposer is called
\* exactly once, with the brief; if it raises or its result is no mapping
\* with the six required fields, the run returns zero successes and exactly
\* one error (naming the missing fields of a mapping), the loop is never
\* entered and no other collaborator is called.
C4_DecomposerFailureAbortsRun ==
    /\ Len(decomposer_calls) <= 1
    /\ \A j \in 1..Len(decomposer_calls) : decomposer_calls[j].brief = brief
    /\ (cfg.loaded /\ pc # "decompose") => Len(decomposer_calls) = 1
    /\ ~cfg.loaded => decomposer_calls = <<>>
    /\ DecompositionFailed =>
          /\ pc \in {"resolve", "done"}
          /\ raised = "none"
          /\ processed_files = <<>>
          /\ pc = "done" =>
                /\ Len(errors) = 1
                /\ (decomposer_calls[1].exc = "none"
                      /\ decomposer_calls[1].value.t = "dict") =>
                      /\ errors[1].kind = "decompose"
                      /\ SeqToSet(errors[1].missing) =
                            PromptKeys \ DOMAIN decomposer_calls[1].value.d
          /\ influences_to_run = <<>>
          /\ i = 0
          /\ composer_calls = <<>>
          /\ generator_calls = <<>>
          /\ process_calls = <<>>
          /\ library_calls = <<>>

\* The decomposer returned a mapping without the pitch field.
C4_Witness ==
    /\ pc = "done"
    /\ decomposer_calls # <<>>
    /\ decomposer_calls[1].exc = "none"
    /\ decomposer_calls[1].value.t = "dict"
    /\ "pitch" \notin DOMAIN decomposer_calls[1].value.d
    /\ Len(errors) = 1

\* C5: whatever the configuration and the collaborators do, run_sfx_pipeline
\* returns its pair of lists: no exception leaves it.
C5_NoExceptionLeavesRun == raised = "none"

\* C6: every variation that fails adds exactly one message to the error
\* list, and the message carries the influence value of that variation (as
\* the two-decimal text the runner prints); the loop adds no other message.
C6_OneMessagePerFailedVariation ==
    /\ Len(VariationMessages) = Len(FailedIdx)
    /\ \A j \in 1..Len(VariationMessages) :
          /\ VariationMessages[j].kind \in PerVariationKinds
          /\ j <= Len(FailedIdx)
          /\ VariationMessages[j].influence = Fmt2(influences_to_run[FailedIdx[j]])
    /\ pc \in {"compose", "generate", "post_process", "library"} =>
          Len(errors) = Len(FailedIdx)

\* Two variations with different influences both failed, in different stages.
C6_Witness ==
    /\ pc = "done"
    /\ Len(influences_to_run) = 2
    /\ Fmt2(influences_to_run[1]) # Fmt2(influences_to_run[2])
    /\ Len(FailedIdx) = 2
    /\ Len(Failures(generator_calls)) = 1
    /\ Len(Failures(process_calls)) = 1

\* Variation k: the Generator returned a raw path and the Loudness Engine
\* returned its results for that path.
FullySucceeded(k) ==
    \E g \in 1..Len(generator_calls), p \in 1..Len(process_calls) :
        /\ generator_calls[g].idx = k
        /\ generator_calls[g].exc = "none"
        /\ process_calls[p].idx = k
        /\ process_calls[p].exc = "none"
        /\ process_calls[p].raw_audio_path = generator_calls[g].value

\* The output path the Loudness Engine returned for variation k.
OutputOf(k) ==
    (CHOOSE c \in SeqToSet(process_calls) : c.idx = k /\ c.exc = "none").value.output_path

SucceededIdx == SelectSeq(Indices, FullySucceeded)

\* C7: a success path and a record exist for a variation if and only if its
\* generation and its post-processing both succeeded: the successes list (and
\* the record list) is exactly the Loudness Engine's output paths of the
\* fully successful variations, in influence order.
C7_SuccessesAreTheFullySuccessfulVariations ==
    /\ Len(processed_files) = Len(SucceededIdx)
    /\ Len(results_for_library) = Len(SucceededIdx)
    /\ \A j \in 1..Len(SucceededIdx) :
          /\ j <= Len(processed_files)
          /\ j <= Len(results_for_library)
          /\ processed_files[j] = OutputOf(SucceededIdx[j])
          /\ results_for_library[j].output_path = OutputOf(SucceededIdx[j])

\* The first variation failed in post-processing, the second succeeded.
C7_Witness ==
    /\ pc = "done"
    /\ Len(influences_to_run) = 2
    /\ Failed(1)
    /\ FullySucceeded(2)
    /\ Len(processed_files) = 1

\* C8: when the Library Store call fails, exactly one message is added (the
\* last one, after the variations' messages) and the successes list still
\* holds the output path of every record handed to the store.
C8_LibraryFailureKeepsSuccesses ==
    (library_calls # <<>> /\ library_calls[1].exc # "none") =>
        /\ Len(errors) = Len(FailedIdx) + 1
        /\ errors[Len(errors)].kind = "library"
        /\ processed_files # <<>>
        /\ Len(processed_files) = Len(library_calls[1].results)
        /\ \A j \in 1..Len(library_calls[1].results) :
              j <= Len(processed_files)
              /\ processed_files[j] = library_calls[1].results[j].output_path

\* The library write failed after two successful variations.
C8_Witness ==
    /\ pc = "done"
    /\ library_calls # <<>>
    /\ library_calls[1].exc # "none"
    /\ Len(processed_files) = 2

\* float() accepts the value.
Convertible(x) == Float(x).exc = "none"

\* The decomposer's batch_influences is a non-empty list of convertible values.
UsableBatch(sp) ==
    /\ "batch_influences" \in DOMAIN sp.d
    /\ sp.d["batch_influences"].t = "list"
    /\ sp.d["batch_influences"].items # <<>>
    /\ \A j \in 1..Len(sp.d["batch_influences"].items) :
          Convertible(sp.d["batch_influences"].items[j])

ExpectedInfluences(sp, c) ==
    IF UsableBatch(sp)
    THEN [j \in 1..Len(sp.d["batch_influences"].items) |->
             Float(sp.d["batch_influences"].items[j]).v]
    ELSE batch_influences(c)

\* C9: the resolved influence list is the decomposer's batch_influences
\* (as numbers) when that is a non-empty list of convertible values, and the
\* configured default list in every other case; resolving it adds no error
\* message and does not end the run.
C9_InfluencesResolvedOrDefault ==
    (/\ PassedDecomposition
     /\ pc # "resolve"
     /\ ResolveDuration(decomposer_calls[1].value, cfg).exc = "none") =>
        /\ i >= 1
        /\ influences_to_run = ExpectedInfluences(decomposer_calls[1].value, cfg)
        /\ \A j \in 1..Len(errors) : errors[j].kind # "unhandled"

\* C10: each variation's Composer call gets the decomposer's fields with
\* prompt_influence = the variation's influence and duration = the resolved
\* duration, the decomposer's mapping itself staying as returned; the
\* Generator call gets the prompt composed for that variation, the resolved
\* duration, the influence and the run's Config; the Loudness Engine call
\* gets the raw path that Generator call returned, the configured target
\* loudness and output folder, and overwrite_original = FALSE.
C10_ArgumentsOfEachVariation ==
    /\ PassedDecomposition => structured_params = decomposer_calls[1].value
    /\ \A j \in 1..Len(composer_calls) :
          LET c == composer_calls[j]
              dec == decomposer_calls[1].value
          IN  /\ DOMAIN c.params.d = (DOMAIN dec.d) \cup {"prompt_influence", "duration"}
              /\ c.params.d["prompt_influence"] = Num(influences_to_run[c.idx])
              /\ c.params.d["duration"] = Num(ResolveDuration(dec, cfg).v)
              /\ \A k \in (DOMAIN dec.d) \ {"prompt_influence", "duration"} :
                    c.params.d[k] = dec.d[k]
    /\ \A j \in 1..Len(generator_calls) :
          LET g == generator_calls[j] IN
          /\ \E k \in 1..Len(composer_calls) :
                /\ composer_calls[k].idx = g.idx
                /\ composer_calls[k].exc = "none"
                /\ composer_calls[k].value = g.prompt
          /\ g.duration = ResolveDuration(decomposer_calls[1].value, cfg).v
          /\ g.prompt_influence = influences_to_run[g.idx]
          /\ g.config = cfg
    /\ \A j \in 1..Len(process_calls) :
          LET p == process_calls[j] IN
          /\ \E k \in 1..Len(generator_calls) :
                /\ generator_calls[k].idx = p.idx
                /\ generator_calls[k].exc = "none"
                /\ generator_calls[k].value = p.raw_audio_path
          /\ p.target_lufs = target_lufs(cfg)
          /\ p.output_dir = Text(output_folder(cfg))
          /\ p.overwrite_original = FALSE

\* Two variations of a decomposer mapping that sets its own duration and
\* influences both reached the Loudness Engine.
C10_Witness ==
    /\ pc = "done"
    /\ PassedDecomposition
    /\ {"duration", "batch_influences"} \subseteq DOMAIN decomposer_calls[1].value.d
    /\ Len(process_calls) = 2
    /\ influences_to_run[1] # influences_to_run[2]

\* --------------------------------------------- claims about process_audio

\* The calls of process_audio that returned a results dict.
EngineCalls == {engine_calls[k] : k \in 1..Len(engine_calls)}
EngineReturns == {c \in EngineCalls : c.exc = "none"}

\* What the call found at raw_audio_path.
Original(c) == FileAt(c.files_before, c.raw_audio_path)

FiniteClip(c) ==
    /\ Original(c).state = "ok"
    /\ Original(c).lufs.t = "num"
    /\ Original(c).peak.t = "num"

\* C11: for finite original loudness L0, original peak P0 and target T, if
\* P0 + (T - L0) > 0 then clipping_prevented is true and gain_applied_db is
\* -P0; otherwise (a predicted peak of exactly 0 included) clipping_prevented
\* is false and gain_applied_db is T - L0.
C11_GainClampedExactlyWhenPeakWouldExceedZero ==
    \A c \in EngineReturns :
        FiniteClip(c) =>
            LET L0 == Original(c).lufs.v
                P0 == Original(c).peak.v
                T == c.target_lufs
            IN  IF P0 + (T - L0) > 0
                THEN /\ c.value.clipping_prevented = Bool(TRUE)
                     /\ c.value.gain_applied_db = Num(-P0)
                ELSE /\ c.value.clipping_prevented = Bool(FALSE)
                     /\ c.value.gain_applied_db = Num(T - L0)

\* A call whose predicted peak is above 0 and whose peak is below 0.
C11_Witness ==
    \E c \in EngineReturns :
        /\ FiniteClip(c)
        /\ Original(c).peak.v + (c.target_lufs - Original(c).lufs.v) > 0
        /\ Original(c).peak.v < 0
        /\ c.value.clipping_prevented = Bool(TRUE)

\* C12: for finite L0, peak P0 <= 0 and target T, the applied gain g keeps the
\* predicted peak at or below 0 dBFS (P0 + g <= 0) and is never above the
\* gain the target asks for (g <= T - L0).
C12_NormalizationNeverClips ==
    \A c \in EngineReturns :
        (FiniteClip(c) /\ Original(c).peak.v <= 0) =>
            /\ c.value.gain_applied_db.t = "num"
            /\ Original(c).peak.v + c.value.gain_applied_db.v <= 0
            /\ c.value.gain_applied_db.v <= c.target_lufs - Original(c).lufs.v

\* A call that raised the level, but by less than the target asks for.
C12_Witness ==
    \E c \in EngineReturns :
        /\ FiniteClip(c)
        /\ c.value.gain_applied_db.v > 0
        /\ c.value.gain_applied_db.v < c.target_lufs - Original(c).lufs.v
        /\ Original(c).peak.v + c.value.gain_applied_db.v = 0

\* The calls on a file whose measured loudness is negative infinity.
SilentCalls ==
    {c \in EngineCalls : /\ Original(c).state = "ok"
                         /\ Original(c).lufs = NegInf
                         /\ c.fault = NoFault}

\* Normalization is a no-op and not an error: no exception, gain 0, no
\* clipping prevention, normalized loudness negative infinity, and an output
\* file is written.
SilenceIsNoOp(c) ==
    /\ c.exc = "none"
    /\ c.value.gain_applied_db = Num(0)
    /\ c.value.clipping_prevented = Bool(FALSE)
    /\ c.value.normalized_lufs = NegInf
    /\ c.value.output_path \in DOMAIN c.files_after

\* C13 as stated: whenever the measured original loudness is negative
\* infinity, normalization is a no-op and the output peak is negative
\* infinity.
C13_SilenceInSilenceOut ==
    \A c \in SilentCalls :
        /\ SilenceIsNoOp(c)
        /\ c.value.normalized_peak_dbfs = NegInf

\* C13 as amended: whenever the measured original loudness is negative
\* infinity, normalization is a no-op, the output peak is the original peak
\* (negative infinity for digital silence), and the file written holds the
\* audio unchanged.
C13_SilenceKeepsOriginalMetrics ==
    \A c \in SilentCalls :
        /\ SilenceIsNoOp(c)
        /\ c.value.normalized_peak_dbfs = Original(c).peak
        /\ (Original(c).peak = NegInf => c.value.normalized_peak_dbfs = NegInf)
        /\ c.files_after[c.value.output_path] = Original(c)

\* A clip under the meter's gate was processed: no loudness, but a peak.
C13_Witness ==
    \E c \in SilentCalls :
        /\ Original(c).peak.t = "num"
        /\ c.exc = "none"

\* C14: a second pass with the same target on the output of a first pass
\* applies a gain of 0, whether the first pass used the full gain, was
\* clamped or was the silence no-op.
C14_SecondPassAppliesNoGain ==
    \A k \in 2..Len(engine_calls) :
        LET first == engine_calls[k - 1]
            second == engine_calls[k]
        IN  (/\ first.exc = "none"
             /\ second.exc = "none"
             /\ second.raw_audio_path = first.value.output_path
             /\ second.target_lufs = first.target_lufs)
            => second.value.gain_applied_db = Num(0)

\* A second pass returned after a first pass that was clamped.
C14_Witness ==
    /\ Len(engine_calls) >= 2
    /\ engine_calls[1].exc = "none"
    /\ engine_calls[1].value.clipping_prevented = Bool(TRUE)
    /\ engine_calls[1].value.gain_applied_db # Num(0)
    /\ engine_calls[2].exc = "none"
    /\ engine_calls[2].raw_audio_path = engine_calls[1].value.output_path

\* C15: with overwrite_original the output path is raw_audio_path; otherwise
\* the output is <stem>_norm<extension>, in output_dir when one is given (the
\* directory exists afterwards) or else in the directory of the raw file, so
\* it is never raw_audio_path and the raw file is left as it was.
C15_OutputLocation ==
    \A c \in EngineReturns :
        LET raw == c.raw_audio_path
            out == c.value.output_path
        IN  /\ out \in DOMAIN c.files_after
            /\ IF c.overwrite_original
               THEN out = raw
               ELSE /\ out.norm = raw.norm + 1
                    /\ out.ext = raw.ext
                    /\ <<out.safe, out.dur, out.infl>> = <<raw.safe, raw.dur, raw.infl>>
                    /\ out.dir = IF c.output_dir # Null THEN c.output_dir.s ELSE raw.dir
                    /\ (c.output_dir # Null => c.output_dir.s \in c.dirs_after)
                    /\ out # raw
                    /\ c.files_after[raw] = c.files_before[raw]

\* A call that wrote into an output directory that did not exist.
C15_Witness ==
    \E c \in EngineReturns :
        /\ ~c.overwrite_original
        /\ c.output_dir # Null
        /\ c.output_dir.s \notin c.dirs_before
        /\ c.value.output_path.dir = c.output_dir.s

\* The parts of C16 that hold as stated: a missing raw file gives
\* FileNotFoundError before any decoding and with nothing written; a decode
\* failure and a zero-channel file give PostProcessingError; nothing but
\* FileNotFoundError and PostProcessingError leaves the call.
ErrorTaxonomy(c) ==
    /\ Original(c).state = "missing" =>
          /\ c.exc = "FileNotFoundError"
          /\ ~c.decoded
          /\ c.files_after = c.files_before
          /\ c.dirs_after = c.dirs_before
    /\ Original(c).state \in {"undecodable", "no_channels"} =>
          c.exc = "PostProcessingError"
    /\ c.exc \in {"none", "FileNotFoundError", "PostProcessingError"}

\* The call decoded audio with channels and something was then raised while
\* measuring, applying the gain or exporting.
FailedInProcessing(c) == Original(c).state = "ok" /\ c.fault # NoFault

StoreCalls == {store_calls[k] : k \in 1..Len(store_calls)}
StoreReturns == {c \in StoreCalls : c.exc = "none"}

\* The mapping a library file holds (none for no file).
Stored(file) == IF file.exists /\ ~file.corrupt THEN file.data ELSE EmptyMapping

\* The list stored under a brief (empty when the brief is not there).
StoredUnder(file, b) ==
    IF b \in DOMAIN Stored(file) THEN Stored(file)[b] ELSE <<>>

IsPrefix(p, q) == Len(p) <= Len(q) /\ p = SubSeq(q, 1, Len(p))

\* C17: after add_to_library(brief, results, path) returned, the list stored
\* under brief is the list stored before followed by results (just results,
\* an empty list included, when the brief or the file was not there), the
\* list under every other brief is as before, and so every list stored
\* before is the start of the list stored after.
C17_AppendExtendsAndLeavesOtherBriefs ==
    \A c \in StoreReturns :
        /\ c.after.exists /\ ~c.after.corrupt
        /\ DOMAIN c.after.data = (DOMAIN Stored(c.before)) \cup {c.brief}
        /\ c.after.data[c.brief] = StoredUnder(c.before, c.brief) \o c.results
        /\ \A b \in (DOMAIN Stored(c.before)) \ {c.brief} :
              c.after.data[b] = Stored(c.before)[b]
        /\ \A b \in DOMAIN Stored(c.before) :
              IsPrefix(Stored(c.before)[b], c.after.data[b])

\* Two appends in a row under a brief that had records, next to another
\* brief's records.
C17_Witness ==
    /\ Len(store_calls) = 2
    /\ \A k \in 1..2 : /\ store_calls[k].exc = "none"
                       /\ store_calls[k].brief = "door slam"
                       /\ store_calls[k].results # <<>>
    /\ StoredUnder(store_calls[1].before, "door slam") # <<>>
    /\ StoredUnder(store_calls[1].before, "glass break") # <<>>

\* C18: appending to a library file whose content is corrupt fails with an
\* error raised in the load step, and the file keeps its content: it is not
\* replaced by a mapping of the new records.
C18_CorruptLibraryFailsOnLoad ==
    \A c \in StoreCalls :
        (c.before.exists /\ c.before.corrupt) =>
            /\ c.exc = "YAMLError"
            /\ c.step = "load"
            /\ c.after = c.before

\* An append of records to a corrupt library file was tried.
C18_Witness ==
    \E c \in StoreCalls :
        /\ c.before.exists /\ c.before.corrupt
        /\ c.results # <<>>
        /\ c.exc # "none"

\* ------------------------------------- claims about the records and Config

LoudnessResultFields ==
    {"original_lufs", "original_peak_dbfs", "target_lufs", "gain_applied_db",
     "clipping_prevented", "normalized_lufs", "normalized_peak_dbfs",
     "output_path"}

\* The records handed to add_to_library by the run.
HandedRecords ==
    UNION {SeqToSet(library_calls[k].results) : k \in 1..Len(library_calls)}

\* C19 as stated: every record handed to the Library Store has exactly the
\* LoudnessResult fields plus brief, prompt and raw_audio_path.
C19_RecordKeysAreLoudnessResultPlusThree ==
    \A r \in HandedRecords :
        DOMAIN r = LoudnessResultFields \cup {"brief", "prompt", "raw_audio_path"}

\* C19 as amended: every record handed to the Library Store has exactly the
\* LoudnessResult fields and the results dict's `error` field, which is
\* null, plus brief, prompt and raw_audio_path.
C19_RecordKeysIncludeError ==
    \A r \in HandedRecords :
        /\ DOMAIN r = LoudnessResultFields
                        \cup {"error", "brief", "prompt", "raw_audio_path"}
        /\ r.error = Null

\* A record was handed to the Library Store.
C19_Witness == HandedRecords # {}

\* C20: configuration is loaded once per run, from the config_path given to
\* the run, and no second Config is constructed during the run.
C20_ConfigLoadedOnceFromGivenPath ==
    /\ Len(config_calls) <= 1
    /\ \A k \in 1..Len(config_calls) : config_calls[k].path = GivenPath

\* ------------------------------------------------- claims about Config

\* The defects of a configuration document, as C21 lists them.
AbsentSections(doc) ==
    SelectSeq(RequiredSections, LAMBDA s : ~(doc.t = "dict" /\ s \in DOMAIN doc.d))

NonMappingSections(doc) == {s \in SeqToSet(RequiredSections) : doc.d[s].t # "dict"}

AbsentOrNullEntries(doc) ==
    SelectSeq(RequiredEntries,
              LAMBDA e : \/ e[2] \notin DOMAIN doc.d[e[1]].d
                         \/ doc.d[e[1]].d[e[2]].t = "null")

NonNumeric(x) == ~(x.t \in {"num", "huge"} \/ (x.t = "str" /\ x.numeric))

WrongType(doc) ==
    LET p == doc.d["prompt"].d IN
    \/ NonNumeric(p["default_duration"])
    \/ NonNumeric(p["prompt_influence"])
    \/ NonNumeric(doc.d["processing"].d["target_lufs"])
    \/ p["batch_influences"].t # "list"
    \/ \E j \in 1..Len(p["batch_influences"].items) :
          NonNumeric(p["batch_influences"].items[j])
    \/ doc.d["library"].d["path"].t # "str"
    \/ doc.d["logging"].d["level"].t # "str"

\* What C21 says of one construction of Config on a file.
FailsAsC21Says(c, file) ==
    IF ~file.exists THEN c.exc = "FileNotFoundError"
    ELSE IF ~file.parses \/ file.doc = Null THEN c.exc = "ConfigError"
    ELSE IF AbsentSections(file.doc) # <<>>
    THEN c.exc = "ConfigError" /\ c.why = "sections"
         /\ c.what = AbsentSections(file.doc)
    ELSE IF NonMappingSections(file.doc) # {}
    THEN c.exc = "ConfigError"
    ELSE IF AbsentOrNullEntries(file.doc) # <<>>
    THEN c.exc = "ConfigError" /\ c.why = "keys"
         /\ c.what = AbsentOrNullEntries(file.doc)
    ELSE IF WrongType(file.doc)
    THEN c.exc = "ConfigError" /\ c.why = "type"
    ELSE TRUE

\* C21: Config construction fails (FileNotFoundError for a missing file,
\* ConfigError otherwise) whenever a required section is absent or not a
\* mapping, a required key is absent or null, or a setting has the wrong
\* type; missing sections are reported before missing keys, and those before
\* type errors, and all missing sections (all missing keys) are named in the
\* one error.
C21_ConfigConstructionFails ==
    \A k \in 1..Len(config_calls) :
        FailsAsC21Says(config_calls[k], config_files[config_calls[k].path])

\* The same, of the documents that are mappings.
C21_OfMappings ==
    \A k \in 1..Len(config_calls) :
        config_files[config_calls[k].path].doc.t \in {"dict", "null"} =>
            FailsAsC21Says(config_calls[k], config_files[config_calls[k].path])

\* ------------------------------------------ claims about the variations

\* C22: two different variations of a run never share a raw-audio path or a
\* normalized-output path.
C22_VariationsOwnTheirFiles ==
    /\ \A a, b \in 1..Len(generator_calls) :
          (/\ generator_calls[a].idx # generator_calls[b].idx
           /\ generator_calls[a].exc = "none"
           /\ generator_calls[b].exc = "none")
          => generator_calls[a].value # generator_calls[b].value
    /\ \A a, b \in 1..Len(process_calls) :
          (/\ process_calls[a].idx # process_calls[b].idx
           /\ process_calls[a].exc = "none"
           /\ process_calls[b].exc = "none")
          => process_calls[a].value.output_path # process_calls[b].value.output_path

\* C23: when two add_to_library calls work on the same library file with any
\* interleaving of their load and write steps, the mapping persisted after
\* both returned holds every record appended by both.
C23_NoUpdateLostWithoutLocking ==
    (\A w \in Writers : writers[w].pc = "returned") =>
        \A w \in Writers :
            \E j \in 1..Len(StoredUnder(library_file, writers[w].brief)) :
                StoredUnder(library_file, writers[w].brief)[j] = WriterRecord(w)

\* C24: in every run, the duration of every variation handed to the Composer
\* and to the Generator is a positive number of seconds, whether it came from
\* the Decomposer or from the configured default.
C24_VariationDurationIsPositive ==
    /\ \A j \in 1..Len(composer_calls) : composer_calls[j].params.d["duration"].v > 0
    /\ \A j \in 1..Len(generator_calls) : generator_calls[j].duration > 0

\* No index occurs twice in a log of calls.
AtMostOncePerVariation(calls) ==
    \A j, k \in 1..Len(calls) : calls[j].idx = calls[k].idx => j = k

\* C25: within one variation the stages run in the order Composer, Generator,
\* Loudness Engine, each at most once: the Generator is called only after the
\* Composer returned the prompt it is handed, the Loudness Engine only after
\* the Generator returned the raw path it is handed, so a variation whose
\* Generator call raised has no Loudness Engine call, while the Composer is
\* called for every variation of the list.
C25_StagesInOrderEachAtMostOnce ==
    /\ AtMostOncePerVariation(composer_calls)
    /\ AtMostOncePerVariation(generator_calls)
    /\ AtMostOncePerVariation(process_calls)
    /\ \A j \in 1..Len(generator_calls) :
          \E k \in 1..Len(composer_calls) :
              /\ composer_calls[k].idx = generator_calls[j].idx
              /\ composer_calls[k].exc = "none"
              /\ composer_calls[k].value = generator_calls[j].prompt
    /\ \A j \in 1..Len(process_calls) :
          \E k \in 1..Len(generator_calls) :
              /\ generator_calls[k].idx = process_calls[j].idx
              /\ generator_calls[k].exc = "none"
              /\ generator_calls[k].value = process_calls[j].raw_audio_path
    /\ \A j \in 1..Len(generator_calls) :
          generator_calls[j].exc # "none" =>
              \A k \in 1..Len(process_calls) :
                  process_calls[k].idx # generator_calls[j].idx
    /\ pc \in {"library", "done"} =>
          \A n \in 1..Len(influences_to_run) :
              \E k \in 1..Len(composer_calls) : composer_calls[k].idx = n

\* The first of two variations went through the three stages, the second
\* stopped at a Generator that raised, and the run is over.
C25_Witness ==
    /\ pc = "done"
    /\ Len(influences_to_run) = 2
    /\ Len(composer_calls) = 2
    /\ Len(generator_calls) = 2
    /\ generator_calls[1].exc = "none"
    /\ generator_calls[2].exc # "none"
    /\ Len(process_calls) = 1
    /\ process_calls[1].idx = 1

\* The number of messages appended inside the variation loop.
PerVariationErrors == Len(VariationMessages)

LibraryWriteFailed == \E j \in 1..Len(library_calls) : library_calls[j].exc # "none"

\* C26: at the end of a run that entered the variation loop over n
\* influences every variation has produced exactly one outcome: the number
\* of successes plus the number of per-variation messages is n, and the
\* errors hold one more message exactly when the library write failed, so
\* there are at most n successes and at most n + 1 errors.
C26_OutcomeAccounting ==
    (pc = "done" /\ composer_calls # <<>>) =>
        LET n == Len(influences_to_run) IN
        /\ Len(processed_files) + PerVariationErrors = n
        /\ Len(errors) = PerVariationErrors + (IF LibraryWriteFailed THEN 1 ELSE 0)
        /\ Len(processed_files) <= n
        /\ Len(errors) <= n + 1

\* A run over two influences ended with one success, one per-variation
\* message and the message of the failed library write.
C26_Witness ==
    /\ pc = "done"
    /\ Len(influences_to_run) = 2
    /\ Len(processed_files) = 1
    /\ PerVariationErrors = 1
    /\ LibraryWriteFailed
    /\ Len(errors) = 2

\* The run is over, the decomposer's mapping passed the key check and its
\* duration resolved, its batch_influences is no usable list and the
\* configured default list is empty.
NothingToRun ==
    /\ pc = "done"
    /\ PassedDecomposition
    /\ ResolveDuration(decomposer_calls[1].value, cfg).exc = "none"
    /\ ~UsableBatch(decomposer_calls[1].value)
    /\ batch_influences(cfg) = <<>>

\* No variation was attempted and the run returns ([], []).
ReturnsNothing ==
    /\ raised = "none"
    /\ processed_files = <<>>
    /\ errors = <<>>
    /\ composer_calls = <<>>
    /\ generator_calls = <<>>
    /\ process_calls = <<>>
    /\ library_calls = <<>>

\* C27: when the Decomposer supplies no usable batch_influences and the
\* configured default list is empty, the run attempts no variation and
\* returns ([], []): no success, no error message, and Composer, Generator,
\* Loudness Engine and Library Store are never called.
C27_EmptyDefaultsAttemptNothing == NothingToRun => ReturnsNothing

\* The same, of the batches float() rejects with ValueError or TypeError.
C27_WhenTheFallbackIsTaken ==
    (NothingToRun /\ ResolveInfluences(decomposer_calls[1].value, cfg).exc = "none")
        => ReturnsNothing

\* The decomposer's mapping passed the key check and holds a duration that
\* float() rejects.
UnconvertibleDuration ==
    /\ PassedDecomposition
    /\ "duration" \in DOMAIN decomposer_calls[1].value.d
    /\ ~Convertible(decomposer_calls[1].value.d["duration"])

\* C28: a decomposer-provided duration that is present but not convertible to
\* a number (null, non-numeric text) is not replaced by the configured
\* default duration: the run attempts no variation and returns zero successes
\* with exactly one error message.
C28_BadDurationEndsTheRun ==
    (UnconvertibleDuration /\ pc # "resolve") =>
        /\ pc = "done"
        /\ raised = "none"
        /\ duration # default_duration(cfg)
        /\ influences_to_run = <<>>
        /\ composer_calls = <<>>
        /\ generator_calls = <<>>
        /\ process_calls = <<>>
        /\ library_calls = <<>>
        /\ processed_files = <<>>
        /\ Len(errors) = 1
        /\ errors[1].kind = "unhandled"

\* A run ended on a null duration with the one message of its TypeError.
C28_Witness ==
    /\ pc = "done"
    /\ UnconvertibleDuration
    /\ decomposer_calls[1].value.d["duration"] = Null
    /\ Len(errors) = 1
    /\ errors[1].exc = "TypeError"

\* C29: when add_to_library raises, for a corrupt store found while loading
\* or for a record the safe YAML dumper cannot represent, the persisted
\* library content is the same as before the call: records stored earlier
\* are never lost by a failed append.
C29_FailedAppendLeavesFileAsBefore ==
    \A c \in StoreCalls : c.exc # "none" => c.after = c.before

\* The same, of the appends that fail while loading.
C29_OfLoadFailures ==
    \A c \in StoreCalls : (c.exc # "none" /\ c.step = "load") => c.after = c.before

\* C30: the Composer is only ever called with a mapping that holds the seven
\* fields of the default template (the six checked after decomposition and
\* the duration the orchestrator sets), so no Composer call fails for a
\* missing field, and a "missing key" composition message, when there is one,
\* comes from a later stage of a variation whose composition succeeded.
C30_ComposerGetsAllSevenFields ==
    /\ \A j \in 1..Len(composer_calls) :
          /\ TemplateFields \subseteq DOMAIN composer_calls[j].params.d
          /\ composer_calls[j].exc # "KeyError"
    /\ \A j \in 1..Len(errors) :
          errors[j].kind = "composition" =>
              \E g \in 1..Len(generator_calls), k \in 1..Len(composer_calls) :
                  /\ generator_calls[g].exc = "KeyError"
                  /\ Fmt2(generator_calls[g].prompt_influence) = errors[j].influence
                  /\ composer_calls[k].idx = generator_calls[g].idx
                  /\ composer_calls[k].exc = "none"

\* The decomposer gave no duration, the Composer was called with the seven
\* fields, and a Generator raising KeyError left a composition message.
C30_Witness ==
    /\ pc = "done"
    /\ PassedDecomposition
    /\ "duration" \notin DOMAIN decomposer_calls[1].value.d
    /\ composer_calls # <<>>
    /\ composer_calls[1].exc = "none"
    /\ \E j \in 1..Len(errors) : errors[j].kind = "composition"

====
